---- MODULE Spec2Model ----
(***************************************************************************)
(* The worker-side scan pipeline of pkgsite-metrics: handleScan,           *)
(* ScanModule, runScanModule / doScan with the active-scan counter and the *)
(* cache reaper (cleanGoCaches), and runWithMemoryMonitor.                 *)
(***************************************************************************)
EXTENDS Integers, Sequences, FiniteSets, TLC

\* ---------------------------------------------------------------- bounds
\* Number of request-serving goroutines that run scans concurrently (SpecScans).
NumProcs == 2
\* Heap samples (and baselines) range over 0..MaxHeap.
MaxHeap == 2
\* An analysis reports 0..MaxVulns vulnerabilities.
MaxVulns == 1
MaxList == 2

Procs == 1..NumProcs

\* ------------------------------------------------------------- constants
ModeVTA == "VTA"
ModeVTAStacks == "VTASTACKS"
ModeImports == "IMPORTS"
ModeBinary == "BINARY"

modes == {ModeImports, ModeVTA, ModeVTAStacks, ModeBinary}

IsValidVulncheckMode(mode) == mode \in modes

\* var shouldSkip = map[string]bool{}
shouldSkip == {}

\* The GOMEMLIMIT values the worker is started with: unset (0) or a limit.
MemLimits == {0, 1}

\* ---------------------------------------------------------------- errors
\* A Go error value: nil, or the set of sentinels errors.Is finds in its
\* chain together with the marker substrings of its message.
NoError == [nil |-> TRUE, is |-> {}, text |-> {}]

\* errors.New(msg) / an error returned by an external collaborator.
NewError(tokens) == [nil |-> FALSE, is |-> {}, text |-> tokens]

\* A derrors sentinel used as an error itself.
Sentinel(k) == [nil |-> FALSE, is |-> {k}, text |-> {k}]

\* fmt.Errorf("%v: %w", err, k): the old chain is flattened to text.
WrapVW(err, k) == [nil |-> FALSE, is |-> {k}, text |-> err.text \cup {k}]

ErrorsIs(err, k) == k \in err.is

isVulnDBConnection(err) == {"https://vuln.go.dev", "connection"} \subseteq err.text

\* Errors an analyzer / sandbox / download call can come back with.
PlainError == NewError({"failed"})
VulnDBError == NewError({"https://vuln.go.dev", "connection"})
CallErrors == {PlainError, VulnDBError}

\* What load.Packages can fail with in a directory: the error (or the
\* package errors printed with %v), and whether go.mod and go.sum exist.
LoadFailures ==
    {<<NewError({"failed"} \cup t), goMod, goSum>> :
        t \in SUBSET {"no required module", "missing go.sum entry"},
        goMod \in BOOLEAN, goSum \in BOOLEAN}

\* ---------------------------------------------------------- work versions
NilWV == [nil |-> TRUE, analyzer |-> "", vulndb |-> "", schema |-> ""]
CurrentWV == [nil |-> FALSE, analyzer |-> "a1", vulndb |-> "t2", schema |-> "s1"]
OldWV == [nil |-> FALSE, analyzer |-> "a1", vulndb |-> "t1", schema |-> "s1"]
WorkVersions == {NilWV, OldWV, CurrentWV}

\* VulncheckWorkVersion.Equal
Equal(v1, v2) ==
    IF v1.nil \/ v2.nil
    THEN v1.nil = v2.nil
    ELSE /\ v1.analyzer = v2.analyzer
         /\ v1.vulndb = v2.vulndb
         /\ v1.schema = v2.schema

\* ------------------------------------------------------------------ rows
NewRow == [vulns |-> 0, error |-> NoError, scanMemory |-> 0, uploaded |-> FALSE]

\* VulnResult.AddError
AddError(r, err) == IF err.nil THEN r ELSE [r EXCEPT !.error = err]

\* -------------------------------------------------------------- requests
Modules == {"std", "mod"}
\* The mode parameter of a request: absent, a mode of the list, or another word.
ModeInputs == {"", ModeVTA, ModeVTAStacks, ModeImports, ModeBinary, "BOGUS"}
InsecureInputs == {"", "true", "false"}

\* scan.ParseRequest: the parsed request of a well-formed URL.
Requests == [module : Modules, mode : ModeInputs, insecureParam : InsecureInputs]

\* What the world outside the worker can do in one behaviour: the requests
\* that arrive, the errors the collaborators (proxy, sandbox, analyzer,
\* analytics store, file system) return, the vulnerability counts an analysis
\* reports, the heap readings, what 'go clean' returns, whether a serving goroutine's slot is reused
\* for a further request, and what the module list (readModules) and the
\* binary bucket (readBinaries) hold.
FullEnv == [requests |-> Requests,
            errs |-> CallErrors,
            vulns |-> 0..MaxVulns,
            heaps |-> 0..MaxHeap,
            baselines |-> 0..MaxHeap,
            cleanErrs |-> {NoError, PlainError},
            loads |-> LoadFailures,
            reuse |-> TRUE,
            modules |-> <<>>,
            binaries |-> <<>>]

\* Concurrent scans of one module: one error value, readings below and above
\* the limit, a pre-scan heap as large as any reading.
ScanEnv == [requests |-> [module : {"mod"}, mode : {ModeVTA},
                          insecureParam : {"true", "false"}],
            errs |-> {PlainError},
            vulns |-> {0},
            heaps |-> {0, MaxHeap},
            baselines |-> {MaxHeap},
            cleanErrs |-> {NoError},
            loads |-> {<<PlainError, TRUE, TRUE>>},
            reuse |-> TRUE,
            modules |-> <<>>,
            binaries |-> <<>>]

\* The enqueue endpoints and the scans they lead to: the module list and the
\* bucket both name the standard library, and a request for it also arrives
\* at the scan endpoint directly.
PlanEnv == [ScanEnv EXCEPT !.requests = [module : {"std"}, mode : {ModeVTA},
                                         insecureParam : {"true"}],
                           !.modules = <<"std", "mod">>,
                           !.binaries = <<"mod", "std">>]

\* ----------------------------------------------------------------- state
VARIABLES
    env,                 \* the world outside the worker (fixed in a behaviour)
    activeScans,         \* var activeScans atomic.Int32
    bqClient,            \* h.bqClient / s.bqClient is non-nil
    cfgInsecure,         \* h.cfg.Insecure
    goMemLimit,          \* parseGoMemLimit(os.Getenv("GOMEMLIMIT"))
    onCloudRun,          \* config.OnCloudRun()
    storedWorkVersions,  \* h.storedWorkVersions: loaded flag and the entry of (mod, v)
    table,               \* analytics store: work version of the latest row of (mod, v)
    crashed,             \* the worker process died of an unrecovered panic
    pc,                  \* per goroutine: position in the handler
    sc,                  \* per goroutine: its scanner and request
    row,                 \* per goroutine: the VulnResult being built
    ret,                 \* per goroutine: values returned up to runScanModule
    mon,                 \* per goroutine: runWithMemoryMonitor's goroutine, channel, context
    hist,                \* per goroutine: what the current request has done so far
    queue,               \* h.queue: the scan tasks enqueued
    call,                \* the last call of a function checked on its own: name, arguments, result
    imageDir,            \* /bundle/rootfs/modules/mod@v exists
    start                \* the ejobs start command: position, arguments, what it has done

vars == <<env, activeScans, bqClient, cfgInsecure, goMemLimit, onCloudRun,
          storedWorkVersions, table, crashed, pc, sc, row, ret, mon, hist, queue,
          call, imageDir, start>>

globals == <<env, bqClient, cfgInsecure, goMemLimit, onCloudRun, queue, call, imageDir,
             start>>

\* The start command before it is run.
NoStart == [pc |-> "idle", args |-> <<>>, world |-> <<>>, up |-> <<>>, events |-> <<>>,
            err |-> ""]

NoScanner == [module |-> "", mode |-> "", insecure |-> FALSE]
\* mem: stats.scanMemory, which travels with the returned values.
NoRet == [vulns |-> 0, err |-> NoError, panic |-> FALSE, mem |-> 0]
NoMon == [f |-> "none", fret |-> NoRet, tripped |-> FALSE, ctxDone |-> FALSE,
          peak |-> 0, pre |-> 0]
\* after: what the request's activeScans.Add(-1) returned (-1: not called yet);
\* reaped: it called cleanGoCaches; purged: that call ran 'go clean';
\* appends: calls of bqClient.Upload; uploads: those that succeeded;
\* cleanErr: the error of the 'go clean' command; logged: log.Errorf got it.
NoHist == [kind |-> "", proxy |-> FALSE, analyzer |-> FALSE, counted |-> FALSE,
           after |-> -1, reaped |-> FALSE, purged |-> FALSE, uploads |-> 0,
           appends |-> 0, cleanErr |-> NoError, logged |-> FALSE, skipped |-> FALSE, resp |-> "",
           param |-> "", load |-> <<>>]

NoCall == [op |-> "", args |-> <<>>, out |-> <<>>]

NotLoaded == [loaded |-> FALSE, wv |-> NilWV]

\* h.storedWorkVersions[[2]string{module, version}]
Lookup(stored, module) ==
    IF stored.loaded /\ module = "mod" THEN stored.wv ELSE NilWV

\* The worker after construction, serving on the goroutines P in the world e.
Setup(P, e, bq, insecures, limits, clouds) ==
    /\ env = e
    /\ activeScans = 0
    /\ bqClient \in bq
    /\ cfgInsecure \in insecures
    /\ goMemLimit \in limits
    /\ onCloudRun \in clouds
    /\ storedWorkVersions = NotLoaded
    /\ table \in (IF bqClient THEN WorkVersions ELSE {NilWV})
    /\ crashed = FALSE
    /\ pc = [p \in P |-> "idle"]
    /\ sc = [p \in P |-> NoScanner]
    /\ row = [p \in P |-> NewRow]
    /\ ret = [p \in P |-> NoRet]
    /\ mon = [p \in P |-> NoMon]
    /\ hist = [p \in P |-> NoHist]
    /\ queue = {}
    /\ call = NoCall
    /\ imageDir = FALSE
    /\ start = NoStart

Init == Setup({1}, FullEnv, BOOLEAN, BOOLEAN, MemLimits, BOOLEAN)

\* A readVulncheckWorkVersions without its test of h.storedWorkVersions != nil.
NeedLoadAlways(stored, bq) == bq

\* readVulncheckWorkVersions goes on to read the analytics store: the cache is
\* nil and there is a client.
NeedLoad(stored, bq) == ~stored.loaded /\ bq

\* A handleScan that compares the two work versions as pointers: they never
\* match, so nothing is ever skipped.
UnchangedByPointer(stored, module) == FALSE

\* The dedup test of handleScan: scanner.workVersion.Equal(wv) for the stored
\* work version wv of the request's (module, version).
Unchanged(stored, module) == Equal(CurrentWV, Lookup(stored, module))

\* The request a queued task is delivered as: the planner sets no insecure
\* parameter.
TaskRequest(t) == [module |-> t.module, mode |-> t.mode, insecureParam |-> ""]

\* The scan requests that can arrive: those sent to the endpoint directly and
\* those the task queue delivers.
Arriving == env.requests \cup {TaskRequest(t) : t \in queue}

\* A goroutine's slot is free: it has served nothing yet, or its handler has
\* returned and the world sends further requests.
Free(p) == pc[p] = "idle" \/ (pc[p] = "done" /\ env.reuse)

\* The handler returns: only the row and the request's history stay visible.
Return(p, resp) ==
    /\ pc' = [pc EXCEPT ![p] = "done"]
    /\ hist' = [hist EXCEPT ![p].resp = resp]

\* ------------------------------------------------------------ handleScan
\* An override that takes an absent parameter for "false".
scannerInsecureFromParam(sreq, default) == sreq.insecureParam = "true"

\* scanner.insecure after newScanner and the override: h.cfg.Insecure, or
\* sreq.Insecure when the form value "insecure" is not empty.
scannerInsecure(sreq, default) ==
    IF sreq.insecureParam # "" THEN sreq.insecureParam = "true" ELSE default

\* The whole of handleScan up to the call of ScanModule: parse, shouldSkip,
\* readVulncheckWorkVersions (under h.mu, so atomic), newScanner, the
\* insecure override and the work-version dedup.
handleScan(p) ==
    /\ ~crashed
    /\ Free(p)
    /\ UNCHANGED <<activeScans, globals, table, crashed>>
    /\ row' = [row EXCEPT ![p] = NewRow]
    /\ ret' = [ret EXCEPT ![p] = NoRet]
    /\ mon' = [mon EXCEPT ![p] = NoMon]
    /\ LET h0 == [NoHist EXCEPT !.kind = "handleScan"]
           needLoad == NeedLoad(storedWorkVersions, bqClient)
           loaded == [loaded |-> TRUE, wv |-> table]
           Reply(resp) ==
               /\ pc' = [pc EXCEPT ![p] = "done"]
               /\ sc' = [sc EXCEPT ![p] = NoScanner]
               /\ hist' = [hist EXCEPT ![p] = [h0 EXCEPT !.resp = resp]]
       IN  \/ \* scan.ParseRequest fails
              /\ Reply("InvalidArgument")
              /\ UNCHANGED storedWorkVersions
           \/ \* a module of the shouldSkip list
              /\ \E sreq \in Arriving : sreq.module \in shouldSkip
              /\ Reply("ok")
              /\ UNCHANGED storedWorkVersions
           \/ \* bigquery.ReadVulncheckWorkVersions fails
              /\ \E sreq \in Arriving : sreq.module \notin shouldSkip
              /\ needLoad
              /\ Reply("error")
              /\ UNCHANGED storedWorkVersions
           \/ \* newScanner fails (getWorkVersion, storage.NewClient)
              /\ \E sreq \in Arriving : sreq.module \notin shouldSkip
              /\ storedWorkVersions' = IF needLoad THEN loaded ELSE storedWorkVersions
              /\ Reply("error")
           \/ \E sreq \in Arriving :
                LET mode == IF sreq.mode = "" THEN ModeVTA ELSE sreq.mode
                    insecure == scannerInsecure(sreq, cfgInsecure)
                    h1 == [h0 EXCEPT !.param = sreq.insecureParam]
                    stored == IF needLoad THEN loaded ELSE storedWorkVersions
                IN  /\ sreq.module \notin shouldSkip
                    /\ storedWorkVersions' = stored
                    /\ sc' = [sc EXCEPT ![p] = [module |-> sreq.module, mode |-> mode,
                                                insecure |-> insecure]]
                    /\ IF Unchanged(stored, sreq.module)
                       THEN \* work version unchanged: return nil
                            /\ pc' = [pc EXCEPT ![p] = "done"]
                            /\ hist' = [hist EXCEPT ![p] = [h1 EXCEPT !.resp = "ok",
                                                                      !.skipped = TRUE]]
                       ELSE /\ pc' = [pc EXCEPT ![p] = "ScanModule"]
                            /\ hist' = [hist EXCEPT ![p] = h1]

\* ------------------------------------------------------------ ScanModule
\* ScanModule up to the call of runScanModule: the std filter and proxy Info.
ScanModule(p) ==
    /\ ~crashed
    /\ pc[p] = "ScanModule"
    /\ UNCHANGED <<activeScans, globals, storedWorkVersions, table, crashed, ret, mon>>
    /\ IF sc[p].module = "std"
       THEN /\ Return(p, "ok")
            /\ UNCHANGED <<row, sc>>
       ELSE \/ \* s.proxyClient.Info fails: the error is added to the row, and
               \* ScanModule returns
               \E e \in env.errs :
                 /\ row' = [row EXCEPT ![p] = AddError(NewRow, WrapVW(e, "ProxyError"))]
                 /\ pc' = [pc EXCEPT ![p] = "done"]
                 /\ sc' = [sc EXCEPT ![p] = NoScanner]
                 /\ hist' = [hist EXCEPT ![p].proxy = TRUE, ![p].resp = "ok"]
            \/ \* s.proxyClient.Info panics: nothing up to handleScan recovers
               /\ pc' = [pc EXCEPT ![p] = "done"]
               /\ sc' = [sc EXCEPT ![p] = NoScanner]
               /\ hist' = [hist EXCEPT ![p].proxy = TRUE, ![p].resp = "panic"]
               /\ UNCHANGED row
            \/ /\ pc' = [pc EXCEPT ![p] = "runScanModule"]
               /\ hist' = [hist EXCEPT ![p].proxy = TRUE]
               /\ UNCHANGED <<row, sc>>

\* --------------------------------------------------------- runScanModule
\* activeScans.Add(1) and the dispatch on s.insecure.
runScanModule(p) ==
    /\ ~crashed
    /\ pc[p] = "runScanModule"
    /\ activeScans' = activeScans + 1
    /\ pc' = [pc EXCEPT ![p] = IF sc[p].insecure THEN "runScanModuleInsecure"
                                                 ELSE "runScanModuleSandbox"]
    /\ hist' = [hist EXCEPT ![p].counted = TRUE]
    /\ UNCHANGED <<globals, storedWorkVersions, table, crashed, sc, row, ret, mon>>

\* What an analysis call hands back: vulns found, an error, or a panic.
Found(ns) == {[NoRet EXCEPT !.vulns = n] : n \in ns}
Failed(errs) == {[NoRet EXCEPT !.err = e] : e \in errs}
Panicked == [NoRet EXCEPT !.panic = TRUE]

\* fmt.Errorf("%w: 'go mod download' for %s@%s returned %s", derrors.BadModule, ...)
BadModuleError == [nil |-> FALSE, is |-> {"BadModule"}, text |-> {"BadModule", "failed"}]

\* runScanModuleSandbox with runSourceScanSandbox / runBinaryScanSandbox:
\* download or copy, 'go mod download', sbox.Run, unmarshalVulncheckOutput.
runScanModuleSandbox(p) ==
    /\ ~crashed
    /\ pc[p] = "runScanModuleSandbox"
    /\ \/ \* the analyzer ran in the sandbox
          \E out \in Found(env.vulns) \cup Failed(env.errs) \cup {Panicked} :
            /\ ret' = [ret EXCEPT ![p] = out]
            /\ hist' = [hist EXCEPT ![p].analyzer = TRUE]
       \/ \* a step before it failed
          \E out \in Failed(IF sc[p].mode = ModeBinary THEN {PlainError}
                            ELSE {PlainError, BadModuleError}) :
            /\ ret' = [ret EXCEPT ![p] = out]
            /\ UNCHANGED hist
    /\ pc' = [pc EXCEPT ![p] = "deferred"]
    /\ UNCHANGED <<activeScans, globals, storedWorkVersions, table, crashed, sc, row, mon>>

\* A variant of memSubtract with its operands exchanged.
memSubtractSwapped(m1, m2) == IF m2 <= m1 THEN 0 ELSE m2 - m1

\* memSubtract subtracts m2 from m1, returning 0 if the result is negative.
memSubtract(m1, m2) == IF m1 <= m2 THEN 0 ELSE m1 - m2

\* A classification that looks for "missing go.sum entry" before
\* "no required module".
LoadErrorSumEntryFirst(err, goMod, goSum) ==
    IF ~goMod THEN WrapVW(err, "ScanModuleLoadPackagesNoGoModError")
    ELSE IF ~goSum THEN WrapVW(err, "ScanModuleLoadPackagesNoGoSumError")
    ELSE IF "missing go.sum entry" \in err.text
    THEN WrapVW(err, "ScanModuleLoadPackagesMissingGoSumEntryError")
    ELSE IF "no required module" \in err.text
    THEN WrapVW(err, "ScanModuleLoadPackagesNoRequiredModuleError")
    ELSE WrapVW(err, "ScanModuleLoadPackagesError")

\* The classification of a load.Packages failure in runSourceScanInsecure.
LoadError(err, goMod, goSum) ==
    IF ~goMod THEN WrapVW(err, "ScanModuleLoadPackagesNoGoModError")
    ELSE IF ~goSum THEN WrapVW(err, "ScanModuleLoadPackagesNoGoSumError")
    ELSE IF "no required module" \in err.text
    THEN WrapVW(err, "ScanModuleLoadPackagesNoRequiredModuleError")
    ELSE IF "missing go.sum entry" \in err.text
    THEN WrapVW(err, "ScanModuleLoadPackagesMissingGoSumEntryError")
    ELSE WrapVW(err, "ScanModuleLoadPackagesError")

\* The deferred os.RemoveAll of runScanModuleInsecure: its error replaces a nil err.
RemoveAllDefer(out, err1) ==
    IF out.panic \/ ~out.err.nil THEN out ELSE [out EXCEPT !.err = err1]

\* runScanModuleInsecure: MkdirTemp, then runBinaryScanInsecure entirely, or
\* runSourceScanInsecure up to the call of runWithMemoryMonitor.
runScanModuleInsecure(p) ==
    /\ ~crashed
    /\ pc[p] = "runScanModuleInsecure"
    /\ UNCHANGED <<activeScans, globals, storedWorkVersions, table, crashed, sc, row>>
    /\ \/ \* os.MkdirTemp fails
          /\ ret' = [ret EXCEPT ![p] = [NoRet EXCEPT !.err = PlainError]]
          /\ pc' = [pc EXCEPT ![p] = "deferred"]
          /\ UNCHANGED <<mon, hist>>
       \/ \* runBinaryScanInsecure: vulncheck.Binary is called directly
          /\ sc[p].mode = ModeBinary
          /\ \E err1 \in {NoError, PlainError} :
               \/ \E out \in Found(env.vulns) \cup Failed(env.errs) \cup {Panicked},
                     pre \in env.baselines, cur \in env.heaps :
                    \* stats.scanMemory = memSubtract(currHeapUsage(), preScanMemory)
                    /\ ret' = [ret EXCEPT ![p] =
                                 [RemoveAllDefer(out, err1) EXCEPT
                                     !.mem = IF out.panic THEN 0
                                             ELSE memSubtract(cur, pre)]]
                    /\ hist' = [hist EXCEPT ![p].analyzer = TRUE]
               \/ \* no bucket, or the copy from GCS or the open failed
                  /\ ret' = [ret EXCEPT ![p] = [NoRet EXCEPT !.err = PlainError]]
                  /\ UNCHANGED hist
          /\ pc' = [pc EXCEPT ![p] = "deferred"]
          /\ UNCHANGED mon
       \/ \* runSourceScanInsecure: modules.Download fails
          /\ sc[p].mode # ModeBinary
          /\ ret' = [ret EXCEPT ![p] = [NoRet EXCEPT !.err = PlainError]]
          /\ pc' = [pc EXCEPT ![p] = "deferred"]
          /\ UNCHANGED <<mon, hist>>
       \/ \* runSourceScanInsecure: load.Packages fails, and the error is
          \* classified and returned
          /\ sc[p].mode # ModeBinary
          /\ \E l \in env.loads :
               /\ ret' = [ret EXCEPT ![p] =
                            [NoRet EXCEPT !.err = LoadError(l[1], l[2], l[3])]]
               /\ hist' = [hist EXCEPT ![p].load = l]
          /\ pc' = [pc EXCEPT ![p] = "deferred"]
          /\ UNCHANGED mon
       \/ \* runSourceScanInsecure reaches runWithMemoryMonitor, which starts the
          \* monitor and the goroutine running f
          /\ sc[p].mode # ModeBinary
          /\ \E pre \in env.baselines :
               mon' = [mon EXCEPT ![p] = [NoMon EXCEPT !.f = "running", !.pre = pre]]
          /\ pc' = [pc EXCEPT ![p] = "select"]
          /\ hist' = [hist EXCEPT ![p].analyzer = TRUE]
          /\ UNCHANGED ret

\* -------------------------------------------------- runWithMemoryMonitor
Max(a, b) == IF a >= b THEN a ELSE b

\* The goroutine of runWithMemoryMonitor: f returns and the goroutine blocks
\* in the send on the unbuffered srchan ("sending": the select can still take
\* it; "blocked": runWithMemoryMonitor has returned, nobody receives). A
\* panic in f is in a goroutine of its own, where no deferred recover of the
\* scan applies: the process dies.
fReturn(p) ==
    /\ ~crashed
    /\ mon[p].f = "running"
    /\ UNCHANGED <<activeScans, globals, storedWorkVersions, table, pc, sc, row, ret, hist>>
    /\ \/ /\ pc[p] = "select"
          /\ \E out \in Found(env.vulns) \cup Failed(env.errs) :
               mon' = [mon EXCEPT ![p].f = "sending", ![p].fret = out]
          /\ UNCHANGED crashed
       \/ /\ pc[p] # "select"
          /\ mon' = [mon EXCEPT ![p].f = "blocked"]
          /\ UNCHANGED crashed
       \/ /\ crashed' = TRUE
          /\ mon' = [mon EXCEPT ![p].f = "panicked"]

\* One tick of the memory monitor: sample the heap, keep the maximum, and
\* cancel the context when a limit is set and the sample exceeds it.
memMonitorSample(p) ==
    /\ ~crashed
    /\ pc[p] = "select"
    /\ \E cur \in env.heaps :
         mon' = [mon EXCEPT ![p].peak = Max(@, cur),
                            ![p].tripped = @ \/ (goMemLimit > 0 /\ cur > goMemLimit)]
    /\ UNCHANGED <<activeScans, globals, storedWorkVersions, table, crashed, pc, sc, row,
                   ret, hist>>

\* The request's context is cancelled (the HTTP client went away, or the
\* worker shuts down); cctx, derived from it, is done too.
ctxCancel(p) ==
    /\ ~crashed
    /\ pc[p] = "select"
    /\ ~mon[p].ctxDone
    /\ mon' = [mon EXCEPT ![p].ctxDone = TRUE]
    /\ UNCHANGED <<activeScans, globals, storedWorkVersions, table, crashed, pc, sc, row,
                   ret, hist>>

\* cctx.Done() is closed: the monitor called cancel, or the parent is done.
CctxDone(m) == m.tripped \/ m.ctxDone

\* What the select's <-cctx.Done() case assigns.
MemLimitRet ==
    [NoRet EXCEPT !.err = Sentinel("ScanModuleMemoryLimitExceeded")]

\* The goroutine of f once runWithMemoryMonitor has returned: it has handed
\* over its result, or it is still running, or it is blocked in its send.
Leftover(m, case) ==
    [NoMon EXCEPT !.f = IF case = "srchan" THEN "exited"
                        ELSE IF m.f = "sending" THEN "blocked" ELSE m.f]

\* A runWithMemoryMonitor that reads the monitor's peak only when f's result
\* has arrived, and returns 0 when the cancellation has.
runWithMemoryMonitorNoPeakOnCancel(p) ==
    /\ ~crashed
    /\ pc[p] = "select"
    /\ \E case \in {"srchan", "Done"}, err1 \in {NoError, PlainError} :
         /\ case = "srchan" => mon[p].f = "sending"
         /\ case = "Done" => CctxDone(mon[p])
         /\ LET out == IF case = "srchan" THEN mon[p].fret ELSE MemLimitRet
            IN  ret' = [ret EXCEPT ![p] =
                          [RemoveAllDefer(out, err1) EXCEPT
                              !.mem = IF case = "srchan"
                                      THEN memSubtract(mon[p].peak, mon[p].pre)
                                      ELSE 0]]
         /\ mon' = [mon EXCEPT ![p] = Leftover(mon[p], case)]
    /\ pc' = [pc EXCEPT ![p] = "deferred"]
    /\ UNCHANGED <<activeScans, globals, storedWorkVersions, table, crashed, sc, row, hist>>

\* The select of runWithMemoryMonitor takes one of its ready cases; then
\* monitor.stop(), and the return through runSourceScanInsecure and the
\* deferred RemoveAll of runScanModuleInsecure.
runWithMemoryMonitor(p) ==
    /\ ~crashed
    /\ pc[p] = "select"
    /\ \E case \in {"srchan", "Done"}, err1 \in {NoError, PlainError} :
         /\ case = "srchan" => mon[p].f = "sending"
         /\ case = "Done" => CctxDone(mon[p])
         /\ LET out == IF case = "srchan" THEN mon[p].fret ELSE MemLimitRet
            IN  \* stats.scanMemory = memSubtract(peakMem, preScanMemory)
                ret' = [ret EXCEPT ![p] =
                          [RemoveAllDefer(out, err1) EXCEPT
                              !.mem = memSubtract(mon[p].peak, mon[p].pre)]]
         /\ mon' = [mon EXCEPT ![p] = Leftover(mon[p], case)]
    /\ pc' = [pc EXCEPT ![p] = "deferred"]
    /\ UNCHANGED <<activeScans, globals, storedWorkVersions, table, crashed, sc, row, hist>>

\* ------------------------------------------- the deferred counter decrement
\* The error runScanModule returns: the recovered panic, or the wrapped error.
ScanError(out) ==
    IF out.panic THEN Sentinel("ScanModulePanicError")
    ELSE IF out.err.nil THEN NoError
    ELSE IF isVulnDBConnection(out.err)
    THEN WrapVW(out.err, "ScanModuleVulncheckDBConnectionError")
    ELSE IF ~ErrorsIs(out.err, "ScanModuleMemoryLimitExceeded")
    THEN WrapVW(out.err, "ScanModuleVulncheckError")
    ELSE out.err

\* What runScanModule returns: nil and the error, or the converted vulns.
ScanResult(out) ==
    [mem |-> out.mem,
     vulns |-> IF ScanError(out).nil THEN out.vulns ELSE 0,
     err |-> ScanError(out),
     panic |-> out.panic]

\* A reaper test that also fires when one other scan is still active.
ReaperDueAtMostOne(after) == after <= 1

\* A reaper that runs at the end of every scan.
ReaperEveryScan(after) == TRUE

\* if activeScans.Add(-1) == 0
ReaperDue(after) == after = 0

\* A runScanModule whose decrement is a plain statement after the scan
\* instead of a deferred one: a panic unwinds past it.
runScanModuleDeferSkippedOnPanic(p) ==
    /\ ~crashed
    /\ pc[p] = "deferred"
    /\ ret' = [ret EXCEPT ![p] = ScanResult(ret[p])]
    /\ activeScans' = IF ret[p].panic THEN activeScans ELSE activeScans - 1
    /\ IF ~ret[p].panic /\ ReaperDue(activeScans')
       THEN /\ pc' = [pc EXCEPT ![p] = "cleanGoCaches"]
            /\ hist' = [hist EXCEPT ![p].after = activeScans', ![p].reaped = TRUE]
       ELSE /\ pc' = [pc EXCEPT ![p] = "ScanModuleUpload"]
            /\ hist' = [hist EXCEPT ![p].after = activeScans']
    /\ UNCHANGED <<globals, storedWorkVersions, table, crashed, sc, row, mon>>

\* The rest of runScanModule: wrap the error or convert the vulns, then the
\* deferred activeScans.Add(-1) == 0 test that calls cleanGoCaches.
runScanModuleDefer(p) ==
    /\ ~crashed
    /\ pc[p] = "deferred"
    /\ ret' = [ret EXCEPT ![p] = ScanResult(ret[p])]
    /\ activeScans' = activeScans - 1
    /\ IF ReaperDue(activeScans')
       THEN /\ pc' = [pc EXCEPT ![p] = "cleanGoCaches"]
            /\ hist' = [hist EXCEPT ![p].after = activeScans', ![p].reaped = TRUE]
       ELSE /\ pc' = [pc EXCEPT ![p] = "ScanModuleUpload"]
            /\ hist' = [hist EXCEPT ![p].after = activeScans']
    /\ UNCHANGED <<globals, storedWorkVersions, table, crashed, sc, row, mon>>

\* s.cleanGoCaches runs to its end: off Cloud Run it returns at once; on it,
\* the purge command runs, in the sandbox or outside it, and its error is
\* returned to the deferred function of runScanModule, which ignores the
\* returned value.
cleanGoCaches(p) ==
    /\ ~crashed
    /\ pc[p] = "cleanGoCaches"
    /\ IF ~onCloudRun
       THEN hist' = [hist EXCEPT ![p].purged = FALSE]
       ELSE \E e \in env.cleanErrs :
              hist' = [hist EXCEPT ![p].purged = TRUE, ![p].cleanErr = e]
    /\ pc' = [pc EXCEPT ![p] = "ScanModuleUpload"]
    /\ UNCHANGED <<activeScans, globals, storedWorkVersions, table, crashed, sc, row, ret,
                   mon>>

\* A ScanModule that only logs the analysis error and never adds it to the row.
FillRowVulnsOnly(r, out) == [r EXCEPT !.vulns = out.vulns]

\* ScanModule after runScanModule: the error is added to the row, or the vulns.
FillRow(r, out) ==
    IF ~out.err.nil THEN AddError(r, out.err) ELSE [r EXCEPT !.vulns = out.vulns]

\* A ScanModule that calls Upload a second time when the first call fails.
ScanModuleUploadRetry(p) ==
    /\ ~crashed
    /\ pc[p] = "ScanModuleUpload"
    /\ pc' = [pc EXCEPT ![p] = "done"]
    /\ sc' = [sc EXCEPT ![p] = NoScanner]
    /\ mon' = [mon EXCEPT ![p] = NoMon]
    /\ LET r == FillRow([row[p] EXCEPT !.scanMemory = ret[p].mem], ret[p])
       IN  IF ~bqClient
           THEN /\ row' = [row EXCEPT ![p] = r]
                /\ hist' = [hist EXCEPT ![p].resp = "ok"]
                /\ UNCHANGED table
           ELSE \E n \in {1, 2} :
                \/ \* the n-th Upload succeeds
                   /\ row' = [row EXCEPT ![p] = [r EXCEPT !.uploaded = TRUE]]
                   /\ table' = CurrentWV
                   /\ hist' = [hist EXCEPT ![p].resp = "ok", ![p].uploads = @ + 1,
                                           ![p].appends = @ + n]
                \/ \* both fail
                   \E e \in env.errs :
                     /\ n = 2
                     /\ row' = [row EXCEPT ![p] = AddError(r, WrapVW(e, "BigQueryError"))]
                     /\ hist' = [hist EXCEPT ![p].resp = "ok", ![p].appends = @ + n]
                     /\ UNCHANGED table
    /\ UNCHANGED <<activeScans, globals, storedWorkVersions, crashed, ret>>

\* The rest of ScanModule: fill the row and upload it.
ScanModuleUpload(p) ==
    /\ ~crashed
    /\ pc[p] = "ScanModuleUpload"
    /\ pc' = [pc EXCEPT ![p] = "done"]
    /\ sc' = [sc EXCEPT ![p] = NoScanner]
    /\ mon' = [mon EXCEPT ![p] = NoMon]
    /\ LET r == FillRow([row[p] EXCEPT !.scanMemory = ret[p].mem], ret[p])
       IN  IF ~bqClient
           THEN /\ row' = [row EXCEPT ![p] = r]
                /\ hist' = [hist EXCEPT ![p].resp = "ok"]
                /\ UNCHANGED table
           ELSE \/ \* Upload succeeds
                   /\ row' = [row EXCEPT ![p] = [r EXCEPT !.uploaded = TRUE]]
                   /\ table' = CurrentWV
                   /\ hist' = [hist EXCEPT ![p].resp = "ok", ![p].uploads = @ + 1,
                                           ![p].appends = @ + 1]
                \/ \* Upload fails
                   \E e \in env.errs :
                     /\ row' = [row EXCEPT ![p] = AddError(r, WrapVW(e, "BigQueryError"))]
                     /\ hist' = [hist EXCEPT ![p].resp = "ok", ![p].appends = @ + 1]
                     /\ UNCHANGED table
    /\ UNCHANGED <<activeScans, globals, storedWorkVersions, crashed, ret>>

\* ----------------------------------------------------------------- doScan
\* doScan is called: activeScans.Add(1), then f runs.
doScan(p) ==
    /\ ~crashed
    /\ Free(p)
    /\ activeScans' = activeScans + 1
    /\ pc' = [pc EXCEPT ![p] = "doScanF"]
    /\ sc' = [sc EXCEPT ![p] = NoScanner]
    /\ row' = [row EXCEPT ![p] = NewRow]
    /\ ret' = [ret EXCEPT ![p] = NoRet]
    /\ mon' = [mon EXCEPT ![p] = NoMon]
    /\ hist' = [hist EXCEPT ![p] = [NoHist EXCEPT !.kind = "doScan", !.counted = TRUE]]
    /\ UNCHANGED <<globals, storedWorkVersions, table, crashed>>

\* f() returns nil or an error, or panics.
doScanF(p) ==
    /\ ~crashed
    /\ pc[p] = "doScanF"
    /\ \E out \in {NoRet, Panicked} \cup Failed(env.errs) :
         ret' = [ret EXCEPT ![p] = out]
    /\ pc' = [pc EXCEPT ![p] = "doScanDeferred"]
    /\ UNCHANGED <<activeScans, globals, storedWorkVersions, table, crashed, sc, row, mon,
                   hist>>

\* The error doScan returns: f's, or the recovered panic.
DoScanError(out) == IF out.panic THEN Sentinel("ScanModulePanicError") ELSE out.err

\* if activeScans.Add(-1) == 0
DoScanReaperDue(after) == after = 0

\* The deferred functions of doScan: activeScans.Add(-1) == 0 calls
\* cleanGoCaches; the recover turns a panic into ScanModulePanicError.
doScanDefer(p) ==
    /\ ~crashed
    /\ pc[p] = "doScanDeferred"
    /\ activeScans' = activeScans - 1
    /\ ret' = [ret EXCEPT ![p].err = DoScanError(ret[p])]
    /\ IF DoScanReaperDue(activeScans')
       THEN /\ pc' = [pc EXCEPT ![p] = "doScanClean"]
            /\ hist' = [hist EXCEPT ![p].after = activeScans', ![p].reaped = TRUE]
       ELSE /\ pc' = [pc EXCEPT ![p] = "done"]
            /\ hist' = [hist EXCEPT ![p].after = activeScans',
                                    ![p].resp = IF DoScanError(ret[p]).nil THEN "ok"
                                                ELSE "error"]
    /\ UNCHANGED <<globals, storedWorkVersions, table, crashed, sc, row, mon>>

\* cleanGoCaches(ctx, insecure) of doScan runs to its end: an insecure scan
\* off Cloud Run returns at once; otherwise 'go clean' runs, on the host's
\* caches or on the sandbox's, and its error is logged.
doScanClean(p) ==
    /\ ~crashed
    /\ pc[p] = "doScanClean"
    /\ pc' = [pc EXCEPT ![p] = "done"]
    /\ LET resp == IF ret[p].err.nil THEN "ok" ELSE "error"
       IN  \E insecure \in BOOLEAN :
             IF insecure /\ ~onCloudRun
             THEN hist' = [hist EXCEPT ![p].purged = FALSE, ![p].resp = resp]
             ELSE \E e \in env.cleanErrs :
                    hist' = [hist EXCEPT ![p].purged = TRUE, ![p].cleanErr = e,
                                         ![p].logged = ~e.nil, ![p].resp = resp]
    /\ UNCHANGED <<activeScans, globals, storedWorkVersions, table, crashed, sc, row, ret,
                   mon>>

\* ----------------------------------------------------------------- enqueue
\* The mode query parameters of the enqueue endpoints that are told apart.
ModeParams == {"", "vta", ModeVTA, ModeBinary, "BOGUS"}

\* strings.ToUpper, on the parameters above.
ToUpper(str) == IF str = "vta" THEN ModeVTA ELSE str

\* vulncheckMode: the default, the upper-casing, and the lookup in modes;
\* "" stands for the error of an unsupported mode.
vulncheckMode(mode) ==
    IF mode = "" THEN ModeVTA
    ELSE IF ToUpper(mode) \in modes THEN ToUpper(mode) ELSE ""

\* maps.Keys(modes), sorted.
AllModes == <<ModeBinary, ModeImports, ModeVTA, ModeVTAStacks>>

\* listModes: the modes to plan for; <<>> stands for its error.
listModes(modeParam, allModes) ==
    IF allModes
    THEN IF modeParam # "" THEN <<>> ELSE AllModes
    ELSE IF vulncheckMode(modeParam) = "" THEN <<>> ELSE <<vulncheckMode(modeParam)>>

\* The requests of a list of modules in one mode (moduleSpecsToScanRequests,
\* and the loop of readBinaries over the bucket's objects).
ScanRequests(mods, mode) == [i \in DOMAIN mods |-> [module |-> mods[i], mode |-> mode]]

\* A planner that leaves the standard library out of the source modes only.
NotStdUnlessBinary(req) == req.module # "std" \/ req.mode = ModeBinary

\* The planner's filter: req.Module != "std".
NotStd(req) == req.module # "std"

\* A planner that returns after the first mode of its list.
createVulncheckQueueTasksFirstModeOnly(ms, modspecs, bins) ==
    IF ms = <<>> THEN <<>>
    ELSE SelectSeq(IF Head(ms) = ModeBinary THEN ScanRequests(bins, Head(ms))
                   ELSE ScanRequests(modspecs, Head(ms)), NotStd)

\* createVulncheckQueueTasks, given what readModules and readBinaries
\* returned: the requests of every mode in turn, the standard library left
\* out.
RECURSIVE createVulncheckQueueTasks(_, _, _)
createVulncheckQueueTasks(ms, modspecs, bins) ==
    IF ms = <<>> THEN <<>>
    ELSE LET mode == Head(ms)
             reqs == IF mode = ModeBinary THEN ScanRequests(bins, mode)
                     ELSE ScanRequests(modspecs, mode)
         IN  SelectSeq(reqs, NotStd) \o createVulncheckQueueTasks(Tail(ms), modspecs, bins)

\* The elements of a sequence.
Range(seq) == {seq[i] : i \in DOMAIN seq}

\* handleEnqueue and handleEnqueueAll: listModes, createVulncheckQueueTasks,
\* enqueueTasks.
enqueue(p) ==
    /\ ~crashed
    /\ Free(p)
    /\ pc' = [pc EXCEPT ![p] = "done"]
    /\ sc' = [sc EXCEPT ![p] = NoScanner]
    /\ row' = [row EXCEPT ![p] = NewRow]
    /\ ret' = [ret EXCEPT ![p] = NoRet]
    /\ mon' = [mon EXCEPT ![p] = NoMon]
    /\ UNCHANGED <<activeScans, env, bqClient, cfgInsecure, goMemLimit, onCloudRun,
                   storedWorkVersions, table, crashed, call, imageDir, start>>
    /\ \E modeParam \in ModeParams, allModes \in BOOLEAN :
         LET ms == listModes(modeParam, allModes)
             tasks == createVulncheckQueueTasks(ms, env.modules, env.binaries)
             Reply(resp) == hist' = [hist EXCEPT ![p] = [NoHist EXCEPT !.kind = "enqueue",
                                                                       !.resp = resp]]
         IN  \/ \* scan.ParseParams or listModes fails
                /\ ms = <<>>
                /\ Reply("InvalidArgument")
                /\ UNCHANGED queue
             \/ \* readModules, readBinaries or enqueueTasks fails
                /\ ms # <<>>
                /\ Reply("error")
                /\ UNCHANGED queue
             \/ /\ ms # <<>>
                /\ Reply("ok")
                /\ queue' = queue \cup Range(tasks)

\* ------------------------------------------------------------------ system
\* One step of the goroutine p.
Step(p) ==
    \/ handleScan(p)
    \/ ScanModule(p)
    \/ runScanModule(p)
    \/ runScanModuleSandbox(p)
    \/ runScanModuleInsecure(p)
    \/ fReturn(p)
    \/ memMonitorSample(p)
    \/ ctxCancel(p)
    \/ runWithMemoryMonitor(p)
    \/ runScanModuleDefer(p)
    \/ cleanGoCaches(p)
    \/ ScanModuleUpload(p)
    \/ doScan(p)
    \/ doScanF(p)
    \/ doScanDefer(p)
    \/ doScanClean(p)

Next == \E p \in {1} : Step(p)

\* One serving goroutine, every outcome of every collaborator.
Spec == Init /\ [][Next]_vars

\* NumProcs goroutines scanning concurrently.
InitScans == Setup(Procs, ScanEnv, {FALSE}, {FALSE}, {1}, {TRUE})

NextScans == \E p \in Procs : Step(p)

SpecScans == InitScans /\ [][NextScans]_vars

\* Three scanners spawned concurrently, each serving one request.
ThreeScanners == {1, 2, 3}

InitThree == Setup(ThreeScanners, [ScanEnv EXCEPT !.reuse = FALSE], {FALSE}, {FALSE}, {1},
                   {TRUE})

NextThree == \E p \in ThreeScanners : Step(p)

SpecThree == InitThree /\ [][NextThree]_vars

\* One serving goroutine takes enqueue requests and scan requests, those of
\* the tasks it enqueued included.
InitPlan == Setup({1}, PlanEnv, {TRUE}, BOOLEAN, {1}, {TRUE})

PlanStep(p) == Step(p) \/ enqueue(p)

NextPlan == \E p \in {1} : PlanStep(p)

SpecPlan == InitPlan /\ [][NextPlan]_vars

\* Two goroutines serve requests concurrently, with or without an analytics
\* store.
TwoServers == {1, 2}

InitServe == Setup(TwoServers, ScanEnv, BOOLEAN, {FALSE}, {1}, {TRUE})

NextServe == \E p \in TwoServers : Step(p)

SpecServe == InitServe /\ [][NextServe]_vars

\* ------------------------------------------------- functions on their own
\* Everything but the record of the last call.
scanVars == <<env, activeScans, bqClient, cfgInsecure, goMemLimit, onCloudRun,
              storedWorkVersions, table, crashed, pc, sc, row, ret, mon, hist, queue,
              imageDir>>

\* The modules a module list or the binary bucket can name.
PlanModules == {"std", "mod", "lib"}

\* Lists of at most MaxList different modules.
Populations ==
    {l \in UNION {[1..n -> PlanModules] : n \in 0..MaxList} :
        \A i, j \in DOMAIN l : l[i] = l[j] => i = j}

\* createVulncheckQueueTasks is called as enqueue calls it, with the modes
\* of listModes and with what readModules and readBinaries returned.
planCall ==
    /\ call = NoCall
    /\ \E modeParam \in ModeParams, allModes \in BOOLEAN, modspecs, bins \in Populations :
         LET ms == listModes(modeParam, allModes)
         IN  /\ ms # <<>>
             /\ call' = [op |-> "createVulncheckQueueTasks",
                         args |-> <<ms, modspecs, bins>>,
                         out |-> createVulncheckQueueTasks(ms, modspecs, bins)]
    /\ UNCHANGED <<scanVars, start>>

\* ---------------------------------------------------------------- task IDs
\* Strings are sequences of code points; the bytes hashed are their UTF-8
\* encoding.
UTF8(r) ==
    IF r < 128 THEN <<r>>
    ELSE IF r < 2048 THEN <<192 + (r \div 64), 128 + (r % 64)>>
    ELSE IF r < 65536 THEN <<224 + (r \div 4096), 128 + ((r \div 64) % 64), 128 + (r % 64)>>
    ELSE <<240 + (r \div 262144), 128 + ((r \div 4096) % 64), 128 + ((r \div 64) % 64),
           128 + (r % 64)>>

RECURSIVE Bytes(_)
Bytes(str) == IF str = <<>> THEN <<>> ELSE UTF8(Head(str)) \o Bytes(Tail(str))

\* The bit of weight w (a power of two) in the exclusive or of a and b.
XorBit(a, b, w) == (((a \div w) + (b \div w)) % 2) * w

\* Bitwise exclusive or of two bytes.
Xor(a, b) ==
    XorBit(a, b, 1) + XorBit(a, b, 2) + XorBit(a, b, 4) + XorBit(a, b, 8)
        + XorBit(a, b, 16) + XorBit(a, b, 32) + XorBit(a, b, 64) + XorBit(a, b, 128)

\* One round of the 32-bit FNV-1 hash on h = <<high 16 bits, low 16 bits>>:
\* multiply by the prime 2^24 + 403 modulo 2^32, then xor the byte in.
FnvRound(h, b) ==
    LET c == h[2] * 403
        hi == ((h[1] * 403) + (c \div 65536) + ((h[2] % 256) * 256)) % 65536
        lo == c % 65536
    IN  <<hi, (lo - (lo % 256)) + Xor(lo % 256, b)>>

\* The hash of the bytes from the i-th to the j-th, continued from h: the
\* rounds of the first half, then those of the second half from its result.
RECURSIVE Fnv(_, _, _, _)
Fnv(h, bytes, i, j) ==
    IF i > j THEN h
    ELSE IF i = j THEN FnvRound(h, bytes[i])
    ELSE LET mid == (i + j) \div 2
             first == Fnv(h, bytes, i, mid)
         IN  IF first[1] >= 0 THEN Fnv(first, bytes, mid + 1, j) ELSE first

\* The hash prefix: FNV-1 of "path@version" from the offset basis 0x811c9dc5,
\* modulo 65535 (2^16 is 1 modulo 65535).
hash4(path, version) ==
    LET bytes == Bytes(path \o <<64>> \o version)
        h == Fnv(<<33052, 40389>>, bytes, 1, Len(bytes))
    IN  (h[1] + h[2]) % 65535

\* The lowercase hexadecimal digit d as a character.
HexDigit(d) == IF d < 10 THEN 48 + d ELSE 87 + d

\* n in lowercase hexadecimal, without padding.
RECURSIVE Hex(_)
Hex(n) == IF n < 16 THEN <<HexDigit(n)>> ELSE Hex(n \div 16) \o <<HexDigit(n % 16)>>

\* Zeros in front up to a width of four.
RECURSIVE Pad4(_)
Pad4(str) == IF Len(str) >= 4 THEN str ELSE Pad4(<<48>> \o str)

\* The format %04x: at least four digits, and as many as the number has.
Format04x(n) == Pad4(Hex(n))

\* A to Z, a to z, 0 to 9.
IsAlnum(r) == (r >= 65 /\ r <= 90) \/ (r >= 97 /\ r <= 122) \/ (r >= 48 /\ r <= 57)

\* An escape that writes "_" as a single "_".
escapeRuneKeepUnderscore(r) ==
    IF IsAlnum(r) \/ r = 45 \/ r = 95 THEN <<r>>
    ELSE IF r = 46 THEN <<95, 111>>
    ELSE IF r = 47 THEN <<95, 45>>
    ELSE <<95>> \o Format04x(r)

\* The escape of one code point: alphanumerics and "-" as they are, "." as
\* "_o", "_" as "__", "/" as "_-" (the expected values of TestNewTaskID), any
\* other code point as "_" and its code point in the format %04x.
escapeRune(r) ==
    IF IsAlnum(r) \/ r = 45 THEN <<r>>
    ELSE IF r = 46 THEN <<95, 111>>
    ELSE IF r = 95 THEN <<95, 95>>
    ELSE IF r = 47 THEN <<95, 45>>
    ELSE <<95>> \o Format04x(r)

RECURSIVE escape(_)
escape(str) == IF str = <<>> THEN <<>> ELSE escapeRune(Head(str)) \o escape(Tail(str))

\* newTaskID: the hash prefix, "-", the escaped path, "_v", the escaped
\* version.
newTaskID(path, version) ==
    Format04x(hash4(path, version)) \o <<45>> \o escape(path) \o <<95, 118>>
        \o escape(version)

\* The cases of TestNewTaskID: path, version, expected identifier.
\*   "m-1", "v2", "acc5-m-1_vv2"
\*   "my_module", "v1.2.3", "0cb9-my__module_vv1_o2_o3"
\*   "µπΩ/github.com", "v2.3.4-ß",
\*       "a49c-_00b5_03c0_03a9_-github_ocom_vv2_o3_o4-_00df"
TestNewTaskID ==
    { <<<<109, 45, 49>>, <<118, 50>>,
        <<97, 99, 99, 53, 45, 109, 45, 49, 95, 118, 118, 50>>>>,
      <<<<109, 121, 95, 109, 111, 100, 117, 108, 101>>,
        <<118, 49, 46, 50, 46, 51>>,
        <<48, 99, 98, 57, 45, 109, 121, 95, 95, 109, 111, 100, 117, 108, 101, 95, 118, 118, 49, 95, 111, 50, 95, 111, 51>>>>,
      <<<<181, 960, 937, 47, 103, 105, 116, 104, 117, 98, 46, 99, 111, 109>>,
        <<118, 50, 46, 51, 46, 52, 45, 223>>,
        <<97, 52, 57, 99, 45, 95, 48, 48, 98, 53, 95, 48, 51, 99, 48, 95, 48, 51, 97, 57, 95, 45, 103, 105, 116, 104, 117, 98, 95, 111, 99, 111, 109, 95, 118, 118, 50, 95, 111, 51, 95, 111, 52, 45, 95, 48, 48, 100, 102>>>> }

\* The code points the inputs are made of: a, 1, v, "-", "_", ".", "/",
\* "@", U+00DF, U+1F60 and U+1F600.
TaskRunes == {97, 49, 118, 45, 95, 46, 47, 64, 223, 8032, 128512}

\* The strings of at most MaxList code points, the empty one left out.
ShortStrings == UNION {[1..n -> TaskRunes] : n \in 1..MaxList}

\* Two longer paths: U+1F600 "6jz" and U+1F60 "06jz".
LongPaths == {<<128512, 54, 106, 122>>, <<8032, 48, 54, 106, 122>>}

TaskPaths == ShortStrings \cup LongPaths \cup {t[1] : t \in TestNewTaskID}

\* The versions: those of TestNewTaskID, and "v@1".
TaskVersions == {t[2] : t \in TestNewTaskID} \cup {<<118, 64, 49>>}

\* newTaskID is applied to a path and a version.
taskIDCall ==
    /\ call = NoCall
    /\ \E path \in TaskPaths, version \in TaskVersions :
         call' = [op |-> "newTaskID", args |-> <<path, version>>,
                  out |-> newTaskID(path, version)]
    /\ UNCHANGED <<scanVars, start>>

\* The code points of a module path of the planner.
ModuleRunes(m) ==
    CASE m = "std" -> <<115, 116, 100>>
      [] m = "mod" -> <<109, 111, 100>>
      [] m = "lib" -> <<108, 105, 98>>

\* The version of the planned modules ("v1.2.3") and the task name suffix
\* of the queue options ("suf").
ModuleVersion == <<118, 49, 46, 50, 46, 51>>
TaskNameSuffix == <<115, 117, 102>>

\* The task identifier of a planned task: newTaskID of its module path and
\* version, then "-" and the suffix. The mode is no part of it.
taskName(t) ==
    newTaskID(ModuleRunes(t.module), ModuleVersion) \o <<45>> \o TaskNameSuffix

\* The paths that are compared with each other: one code point, the longer
\* paths, those of TestNewTaskID, and "a_v", "a_" and "a.".
PairPaths ==
    [1..1 -> TaskRunes] \cup LongPaths \cup {t[1] : t \in TestNewTaskID}
        \cup {<<97, 95, 118>>, <<97, 95>>, <<97, 46>>}

\* newTaskID is applied to two different pairs of path and version.
taskIDPairCall ==
    /\ call = NoCall
    /\ \E p1, p2 \in PairPaths, v1, v2 \in TaskVersions :
         /\ <<p1, v1>> # <<p2, v2>>
         /\ call' = [op |-> "newTaskID, newTaskID",
                     args |-> <<<<p1, v1>>, <<p2, v2>>>>,
                     out |-> <<newTaskID(p1, v1), newTaskID(p2, v2)>>]
    /\ UNCHANGED <<scanVars, start>>

\* ------------------------------------------------------------- task URLs
\* A URL is the sequence of its pieces. The query of a URL is what follows
\* its first "?", its parameters are separated by "&", and the key of a
\* parameter is its first piece.
QueueURL == "http://1.2.3.4:8000"

\* The URL of the unset case: queue URL, namespace, module, version, and
\* the three parameters of the request.
taskURL(opts, sreq) ==
    <<QueueURL, "/", opts.Namespace, "/scan/", sreq.Module, "/@v/", sreq.Version,
      "?", "importedby=", ToString(sreq.ImportedBy),
      "&", "mode=", sreq.Mode,
      "&", "insecure=", IF sreq.Insecure THEN "true" ELSE "false">>

\* A builder that puts proxyfetch=off in the place of the other parameters.
newTaskRequestProxyFetchAlone(opts, sreq) ==
    IF opts.DisableProxyFetch
    THEN SubSeq(taskURL(opts, sreq), 1, 7) \o <<"?", "proxyfetch=", "off">>
    ELSE taskURL(opts, sreq)

\* The URL of newTaskRequest: with DisableProxyFetch, "?proxyfetch=off" is
\* appended to the URL of the unset case.
newTaskRequest(opts, sreq) ==
    IF opts.DisableProxyFetch
    THEN taskURL(opts, sreq) \o <<"?", "proxyfetch=", "off">>
    ELSE taskURL(opts, sreq)

\* The requests and options newTaskRequest is called with.
TaskScanRequests ==
    [Module : {"mod", "lib"}, Version : {"v1.2.3"}, ImportedBy : 0..MaxList,
     Mode : {"test", ModeVTA}, Insecure : BOOLEAN]
TaskOptions ==
    [Namespace : {"test", "vulncheck"}, TaskNameSuffix : {"suf"},
     DisableProxyFetch : BOOLEAN]

\* newTaskRequest is applied to a request and options.
taskRequestCall ==
    /\ call = NoCall
    /\ \E opts \in TaskOptions, sreq \in TaskScanRequests :
         call' = [op |-> "newTaskRequest", args |-> <<opts, sreq>>,
                  out |-> newTaskRequest(opts, sreq)]
    /\ UNCHANGED <<scanVars, start>>

InitCalls == Setup({1}, ScanEnv, {FALSE}, {FALSE}, {1}, {TRUE})

NextCalls ==
    \/ planCall
    \/ taskIDCall
    \/ taskIDPairCall
    \/ taskRequestCall

\* The functions of the planner and of the task queue, each applied to
\* every input of its bounded domain, one call in a behaviour.
SpecCalls == InitCalls /\ [][NextCalls]_vars

\* ------------------------------------------- the sandbox's source directory
\* runSourceScanSandbox step by step. Every scan of mod@v uses the one
\* directory /bundle/rootfs/modules/mod@v, whatever its mode.
sandboxVars == <<env, activeScans, bqClient, cfgInsecure, goMemLimit, onCloudRun,
                 storedWorkVersions, table, crashed, row, mon, queue, call, start>>

\* runSourceScanSandbox is called for a task the queue delivers: a source
\* scan of a module in sandbox mode. Its deferred os.RemoveAll is pending
\* from here on.
sandboxScan(p) ==
    /\ ~crashed
    /\ Free(p)
    /\ \E t \in queue :
         /\ t.mode # ModeBinary
         /\ t.module = "mod"
         /\ sc' = [sc EXCEPT ![p] = [module |-> t.module, mode |-> t.mode,
                                     insecure |-> FALSE]]
    /\ pc' = [pc EXCEPT ![p] = "Download"]
    /\ ret' = [ret EXCEPT ![p] = NoRet]
    /\ hist' = [hist EXCEPT ![p] = [NoHist EXCEPT !.kind = "runSourceScanSandbox"]]
    /\ UNCHANGED <<sandboxVars, imageDir>>

\* modules.Download writes the module's files under imageDir, or fails
\* having written some or none of them.
sandboxDownload(p) ==
    /\ ~crashed
    /\ pc[p] = "Download"
    /\ \/ /\ imageDir' = TRUE
          /\ pc' = [pc EXCEPT ![p] = "goModDownload"]
          /\ UNCHANGED ret
       \/ /\ imageDir' \in {imageDir, TRUE}
          /\ pc' = [pc EXCEPT ![p] = "RemoveAll"]
          /\ ret' = [ret EXCEPT ![p].err = PlainError]
    /\ UNCHANGED <<sandboxVars, sc, hist>>

\* 'go mod download' runs in imageDir: without the directory, or on a
\* failure of its own, the error is returned as BadModule.
sandboxGoModDownload(p) ==
    /\ ~crashed
    /\ pc[p] = "goModDownload"
    /\ \/ /\ imageDir
          /\ pc' = [pc EXCEPT ![p] = "sboxRun"]
          /\ UNCHANGED ret
       \/ /\ pc' = [pc EXCEPT ![p] = "RemoveAll"]
          /\ ret' = [ret EXCEPT ![p].err = BadModuleError]
    /\ UNCHANGED <<sandboxVars, sc, hist, imageDir>>

\* sbox.Run of vulncheck_sandbox on the directory: without the directory
\* the analyzer fails; with it, it finds vulnerabilities or fails.
sandboxRun(p) ==
    /\ ~crashed
    /\ pc[p] = "sboxRun"
    /\ \E out \in IF imageDir THEN Found(env.vulns) \cup Failed(env.errs)
                  ELSE Failed(env.errs) :
         ret' = [ret EXCEPT ![p] = out]
    /\ pc' = [pc EXCEPT ![p] = "RemoveAll"]
    /\ hist' = [hist EXCEPT ![p].analyzer = TRUE]
    /\ UNCHANGED <<sandboxVars, sc, imageDir>>

\* The deferred os.RemoveAll(imageDir), and the return.
sandboxRemoveAll(p) ==
    /\ ~crashed
    /\ pc[p] = "RemoveAll"
    /\ imageDir' = FALSE
    /\ pc' = [pc EXCEPT ![p] = "done"]
    /\ hist' = [hist EXCEPT ![p].resp = IF ret[p].err.nil THEN "ok" ELSE "error"]
    /\ UNCHANGED <<sandboxVars, sc, ret>>

SandboxStep(p) ==
    \/ enqueue(p)
    \/ sandboxScan(p)
    \/ sandboxDownload(p)
    \/ sandboxGoModDownload(p)
    \/ sandboxRun(p)
    \/ sandboxRemoveAll(p)

InitSandbox == Setup(Procs, PlanEnv, {FALSE}, {FALSE}, {1}, {TRUE})

NextSandbox == \E p \in Procs : SandboxStep(p)

\* NumProcs goroutines serve enqueue requests and the sandbox source scans
\* of the tasks enqueued.
SpecSandbox == InitSandbox /\ [][NextSandbox]_vars

\* ------------------------------------------------------ ejobs start
\* What the command line and the file system give doStart: whether the flags
\* parse, the number of arguments (the binary and its arguments), what
\* os.Stat says of the binary, the platform buildinfo reports, whether an
\* argument of the binary contains whitespace, and the -dryrun flag.
StartArgs ==
    [parse : BOOLEAN, narg : 0..MaxList, stat : {"file", "dir", "notexist", "error"},
     arch : {"linux/amd64", "darwin/arm64", "unreadable"}, space : BOOLEAN,
     dryRun : BOOLEAN]

\* What uploadAnalysisBinary and the enqueue meet: the token sources, the
\* object's attributes on GCS, fileMD5, the user's answer, copyToGCS, httpGet.
StartWorld ==
    [token : BOOLEAN, attrs : {"notexist", "error", "badmd5", "same", "differs"},
     md5 : BOOLEAN, response : {"y", "Y", "n", ""}, copy : BOOLEAN,
     identity : BOOLEAN, get : BOOLEAN]

\* A validation without the test of the binary's arguments for whitespace.
startArgsErrorSpaceAllowed(a) ==
    IF ~a.parse THEN "parse"
    ELSE IF a.narg = 0 THEN "wrong number of args"
    ELSE IF a.stat = "notexist" THEN "does not exist"
    ELSE IF a.stat = "error" THEN "stat"
    ELSE IF a.stat = "dir" THEN "is a directory, not a file"
    ELSE IF a.arch # "linux/amd64" THEN "binary not built for linux/amd64"
    ELSE ""

\* The validation of doStart: the error it returns, or "".
startArgsError(a) ==
    IF ~a.parse THEN "parse"
    ELSE IF a.narg = 0 THEN "wrong number of args"
    ELSE IF a.stat = "notexist" THEN "does not exist"
    ELSE IF a.stat = "error" THEN "stat"
    ELSE IF a.stat = "dir" THEN "is a directory, not a file"
    ELSE IF a.arch # "linux/amd64" THEN "binary not built for linux/amd64"
    ELSE IF a.narg > 1 /\ a.space THEN "contains whitespace: not supported"
    ELSE ""

\* What uploadAnalysisBinary returns (canceled, err), and whether it called
\* copyToGCS.
uploadOutcome(dryRun, w) ==
    LET result(canceled, err, copied) ==
            [canceled |-> canceled, err |-> err, copied |-> copied]
        upload == result(FALSE, IF w.copy THEN "" ELSE "copyToGCS", TRUE)
    IN  IF dryRun THEN result(FALSE, "", FALSE)
        ELSE IF ~w.token THEN result(FALSE, "accessTokenSource", FALSE)
        ELSE IF w.attrs = "notexist" THEN upload
        ELSE IF w.attrs = "error" THEN result(FALSE, "Attrs", FALSE)
        ELSE IF w.attrs = "badmd5" THEN result(FALSE, "len(attrs.MD5)", FALSE)
        ELSE IF ~w.md5 THEN result(FALSE, "fileMD5", FALSE)
        ELSE IF w.attrs = "same" THEN result(FALSE, "", FALSE)
        ELSE IF w.response \notin {"y", "Y"} THEN result(TRUE, "", FALSE)
        ELSE upload

\* doStart up to the call of uploadAnalysisBinary: the flags are parsed and
\* the arguments validated.
doStart ==
    /\ start.pc = "idle"
    /\ \E a \in StartArgs, w \in StartWorld :
         start' = [start EXCEPT !.args = a, !.world = w,
                                !.err = startArgsError(a),
                                !.pc = IF startArgsError(a) = ""
                                       THEN "uploadAnalysisBinary" ELSE "done"]
    /\ UNCHANGED <<scanVars, call>>

\* uploadAnalysisBinary, and doStart's return when it failed or was
\* cancelled.
uploadAnalysisBinary ==
    /\ start.pc = "uploadAnalysisBinary"
    /\ LET up == uploadOutcome(start.args.dryRun, start.world)
       IN  start' = [start EXCEPT
                        !.up = up,
                        !.events = IF up.copied THEN Append(@, "upload") ELSE @,
                        !.err = up.err,
                        !.pc = IF up.err = "" /\ ~up.canceled THEN "enqueue" ELSE "done"]
    /\ UNCHANGED <<scanVars, call>>

\* The rest of doStart: the identity token, the URL, and the GET of
\* /analysis/enqueue unless -dryrun is set.
doStartEnqueue ==
    /\ start.pc = "enqueue"
    /\ start' = [start EXCEPT
                    !.pc = "done",
                    !.events = IF start.world.identity /\ ~start.args.dryRun
                               THEN Append(@, "enqueue") ELSE @,
                    !.err = IF ~start.world.identity THEN "identityTokenSource"
                            ELSE IF start.args.dryRun THEN ""
                            ELSE IF start.world.get THEN "" ELSE "httpGet"]
    /\ UNCHANGED <<scanVars, call>>

InitStart == Setup({1}, ScanEnv, {FALSE}, {FALSE}, {1}, {TRUE})

NextStart == doStart \/ uploadAnalysisBinary \/ doStartEnqueue

\* One run of 'ejobs start', for every command line and every behaviour of
\* the file system, the bucket, the user and the worker.
SpecStart == InitStart /\ [][NextStart]_vars

\* ================================================================ properties
\* A scan is in flight from its activeScans.Add(1) to its activeScans.Add(-1).
InFlightPcs == {"runScanModuleInsecure", "runScanModuleSandbox", "select", "deferred",
                "doScanF", "doScanDeferred"}

InFlight(p) == pc[p] \in InFlightPcs

\* The reaper (cleanGoCaches) has been called and has not returned.
ReaperPcs == {"cleanGoCaches", "doScanClean"}

Reaping(p) == pc[p] \in ReaperPcs

\* The values a call returns, without the statistics that travel with them.
Returned(r) == [r EXCEPT !.mem = 0]

\* ScanModule has run an analysis and has returned: its row is final.
Built(p) == pc[p] = "done" /\ hist[p].kind = "handleScan" /\ hist[p].counted

\* C1: the active-scan counter equals the number of scans in flight (those
\* that have incremented it and not yet decremented it), so it is never
\* negative and is zero when no scan is in flight, whichever way a scan ends:
\* result, error, timeout, memory limit or panic.
CounterIsScansInFlight ==
    activeScans = Cardinality({p \in DOMAIN pc : InFlight(p)})

\* C1 happens: one scan has ended by a recovered panic and another by the
\* memory limit, and the counter is back at zero.
CounterAfterPanicAndMemLimit ==
    /\ activeScans = 0
    /\ \E p, q \in DOMAIN pc :
         /\ Built(p) /\ ret[p].panic
         /\ Built(q) /\ ErrorsIs(ret[q].err, "ScanModuleMemoryLimitExceeded")

\* C2: a reaper is started only by the step that decrements the counter from
\* one to zero: never by an increment, never by a decrement that leaves the
\* counter above zero, never from anywhere else.
ReaperOnlyAtZeroCrossing ==
    [][\A p \in DOMAIN pc :
         (pc'[p] \in ReaperPcs /\ pc[p] \notin ReaperPcs) =>
             /\ activeScans = 1
             /\ activeScans' = 0
             /\ pc[p] \in {"deferred", "doScanDeferred"}]_vars

\* C2 happens: one scan has started the reaper, and another scan has ended
\* with a decrement that left the counter above zero and started none.
ReaperStartedAndNotStarted ==
    \E p, q \in DOMAIN pc :
        /\ Reaping(p)
        /\ hist[q].after > 0 /\ ~hist[q].reaped

\* C3: while a reaper purges the caches the counter is zero: no scan is in
\* flight at any moment of the reaper's run.
PurgeOnlyWhileIdle ==
    \A p \in DOMAIN pc : (Reaping(p) /\ onCloudRun) => activeScans = 0

\* C4: no two reaper runs are in progress at the same time.
OneReaperAtATime ==
    Cardinality({p \in DOMAIN pc : Reaping(p)}) <= 1

\* C5 as stated: when three scans are spawned concurrently the reaper runs
\* exactly once, and it begins only after all three have completed.
ThreeScansOneReaperRun ==
    /\ (\A p \in DOMAIN pc : pc[p] = "done" /\ hist[p].counted) =>
           Cardinality({p \in DOMAIN pc : hist[p].reaped}) = 1
    /\ \A p \in DOMAIN pc :
           hist[p].reaped => \A q \in DOMAIN pc : hist[q].after >= 0

\* All the scans were in flight at the same time: one of them decremented
\* the counter when every scan had incremented it.
AllOverlapped ==
    \E q \in DOMAIN pc : hist[q].after = Cardinality(DOMAIN pc) - 1

\* C5: when three scans are spawned concurrently and all three are in flight
\* at the same time, the reaper runs exactly once, and it begins only after
\* all three have completed.
OverlappingScansOneReaperRun ==
    AllOverlapped =>
        /\ (\A p \in DOMAIN pc : pc[p] = "done") =>
               Cardinality({p \in DOMAIN pc : hist[p].reaped}) = 1
        /\ \A p \in DOMAIN pc :
               hist[p].reaped => \A q \in DOMAIN pc : hist[q].after >= 0

\* C5 happens: three overlapping scans have all returned, one reaper has run.
ThreeOverlappingScansDone ==
    /\ AllOverlapped
    /\ \A p \in DOMAIN pc : pc[p] = "done" /\ hist[p].counted
    /\ Cardinality({p \in DOMAIN pc : hist[p].reaped}) = 1

\* C6: a request whose stored work version equals the current one is skipped:
\* the handler returns success without calling the proxy or the analyzer,
\* without touching the counter and without building or appending a row.
DedupSkipsScan ==
    \A p \in DOMAIN pc :
        (sc[p] # NoScanner /\ Equal(CurrentWV, Lookup(storedWorkVersions, sc[p].module))) =>
            /\ pc[p] = "done"
            /\ hist[p].resp = "ok"
            /\ ~hist[p].proxy /\ ~hist[p].analyzer /\ ~hist[p].counted
            /\ hist[p].after = -1
            /\ hist[p].uploads = 0
            /\ row[p] = NewRow

\* C6 happens: a request has been answered whose stored work version equals
\* the current one.
DedupSkipped ==
    \E p \in DOMAIN pc :
        /\ pc[p] = "done"
        /\ sc[p] # NoScanner
        /\ storedWorkVersions.loaded
        /\ Equal(CurrentWV, Lookup(storedWorkVersions, sc[p].module))

\* C7: every admitted scan of a module other than std ends with its row
\* appended to the analytics store, the scan whose proxy lookup failed
\* included (a failure of the append itself apart).
RowAppendedForEveryScan ==
    \A p \in DOMAIN pc :
        (/\ pc[p] = "done" /\ hist[p].kind = "handleScan" /\ hist[p].proxy
         /\ hist[p].resp = "ok"
         /\ bqClient
         /\ ~ErrorsIs(row[p].error, "BigQueryError")) =>
            row[p].uploaded /\ hist[p].uploads = 1

\* C8 as stated: at the end of the scan the row has exactly one of vulns
\* populated (the analysis succeeded and its vulns, possibly none, were put
\* in the row) and error populated.
ExactlyOneOfVulnsAndError ==
    \A p \in DOMAIN pc : Built(p) => (ret[p].err.nil # ~row[p].error.nil)

\* C8: at the end of the scan the row carries the vulns of the analysis iff
\* the analysis succeeded, and an error iff the analysis or the append
\* failed: exactly one of the two, except after a success followed by a failed
\* append, where the row has both and the error is the append's.
VulnsOrErrorUnlessAppendFailed ==
    \A p \in DOMAIN pc :
        Built(p) =>
            /\ row[p].vulns = (IF ret[p].err.nil THEN ret[p].vulns ELSE 0)
            /\ ~row[p].error.nil <=> (~ret[p].err.nil \/ (bqClient /\ ~row[p].uploaded))
            /\ (ret[p].err.nil /\ ~row[p].error.nil) =>
                   ErrorsIs(row[p].error, "BigQueryError")

\* C8 happens: an analysis found vulns, the append failed, and the row has
\* the vulns and the append's error.
VulnsAndAppendError ==
    \E p \in DOMAIN pc :
        /\ Built(p)
        /\ ret[p].err.nil
        /\ row[p].vulns > 0
        /\ ErrorsIs(row[p].error, "BigQueryError")

\* C9: every panic during a scan is captured: the worker does not crash and
\* no panic leaves ScanModule.
PanicsAreCaptured ==
    /\ ~crashed
    /\ \A p \in DOMAIN pc : hist[p].resp # "panic"

\* C10: runWithMemoryMonitor returns the memory-limit error when a limit is
\* set and a sample exceeded it, and otherwise exactly what f returned (the
\* step includes the caller's deferred RemoveAll, which can add its error to a
\* nil one).
MonitorReturnsLimitOrResult ==
    [][\A p \in DOMAIN pc :
         (pc[p] = "select" /\ pc'[p] = "deferred") =>
             IF goMemLimit > 0 /\ mon[p].tripped
             THEN Returned(ret'[p]) = MemLimitRet
             ELSE /\ mon[p].f = "sending"
                  /\ \E err1 \in {NoError, PlainError} :
                       Returned(ret'[p]) = RemoveAllDefer(mon[p].fret, err1)]_vars

\* The select of runWithMemoryMonitor has returned in this step.
MonitorReturns(p) == pc[p] = "select" /\ pc'[p] = "deferred"

\* C11: in every interleaving of f's goroutine and the monitor the value
\* runWithMemoryMonitor returns is decided by exactly one of the two events:
\* f's result has arrived and is returned, or the cancellation has fired and
\* the memory-limit error is returned; and in both cases the peak sample is
\* returned (it reaches the statistics less the pre-scan heap).
OneWinnerAndPeak ==
    [][\A p \in DOMAIN pc :
         MonitorReturns(p) =>
             LET byResult == /\ mon[p].f = "sending"
                             /\ \E err1 \in {NoError, PlainError} :
                                  Returned(ret'[p]) = RemoveAllDefer(mon[p].fret, err1)
                 byCancel == /\ CctxDone(mon[p])
                             /\ Returned(ret'[p]) = MemLimitRet
             IN  /\ byResult # byCancel
                 /\ ret'[p].mem = memSubtract(mon[p].peak, mon[p].pre)]_vars

\* C11 happens: the cancellation has won, and the peak sample is in the
\* statistics of the scan.
CancelledWithPeak ==
    \E p \in DOMAIN pc :
        /\ pc[p] = "deferred"
        /\ ErrorsIs(ret[p].err, "ScanModuleMemoryLimitExceeded")
        /\ ret[p].mem = MaxHeap

\* C12 as stated: when the memory monitor has tripped, the scan's error is
\* the memory-limit error, and every later stage up to the recorded row
\* keeps that error as it is.
TrippedScanRecordsMemoryLimit ==
    [][\A p \in DOMAIN pc :
         /\ (MonitorReturns(p) /\ mon[p].tripped) =>
                ErrorsIs(ret'[p].err, "ScanModuleMemoryLimitExceeded")
         /\ (pc[p] = "deferred" /\ ErrorsIs(ret[p].err, "ScanModuleMemoryLimitExceeded")) =>
                ret'[p].err = ret[p].err
         /\ (/\ pc[p] = "ScanModuleUpload"
             /\ ErrorsIs(ret[p].err, "ScanModuleMemoryLimitExceeded")
             /\ row'[p].uploaded) =>
                row'[p].error = ret[p].err]_vars

\* C13 as stated: when the monitor has tripped with limit L, the scan_memory
\* of the scan is at least L, and it is what is written to the row.
ScanMemoryAtLeastLimit ==
    [][\A p \in DOMAIN pc :
         /\ (MonitorReturns(p) /\ mon[p].tripped) => ret'[p].mem >= goMemLimit
         /\ pc[p] = "deferred" => ret'[p].mem = ret[p].mem
         /\ (pc[p] = "ScanModuleUpload" /\ pc'[p] = "done") =>
                row'[p].scanMemory = ret[p].mem]_vars

\* C13: when the monitor has tripped with limit L, the scan_memory written to
\* the row is the peak sample less the pre-scan heap (0 when the heap was not
\* below the peak): more than L less the pre-scan heap, and so at least L
\* when the pre-scan heap is zero.
ScanMemoryIsPeakLessBaseline ==
    [][\A p \in DOMAIN pc :
         /\ (MonitorReturns(p) /\ mon[p].tripped) =>
                /\ ret'[p].mem = memSubtract(mon[p].peak, mon[p].pre)
                /\ ret'[p].mem + mon[p].pre > goMemLimit
                /\ mon[p].pre = 0 => ret'[p].mem >= goMemLimit
         /\ pc[p] = "deferred" => ret'[p].mem = ret[p].mem
         /\ (pc[p] = "ScanModuleUpload" /\ pc'[p] = "done") =>
                row'[p].scanMemory = ret[p].mem]_vars

\* C13 happens: a scan whose peak sample was above the limit has ended with
\* the memory-limit error and its row carries the whole peak as scan_memory.
RowWithPeakAboveLimit ==
    \E p \in DOMAIN pc :
        /\ Built(p)
        /\ goMemLimit > 0 /\ goMemLimit < MaxHeap
        /\ row[p].scanMemory = MaxHeap
        /\ ErrorsIs(row[p].error, "ScanModuleMemoryLimitExceeded")

\* C14: every analyzer invocation, in every mode and on the sandbox path as
\* on the insecure one, runs inside runWithMemoryMonitor: when the analyzer
\* has been called the scan has a monitor and the goroutine of f.
EveryAnalysisMonitored ==
    \A p \in DOMAIN pc :
        (hist[p].analyzer /\ pc[p] \in {"select", "deferred"}) => mon[p].f # "none"

\* C19: handleScan rejects a request whose mode is not in the list of modes
\* before any fetch: no scanner that has called the proxy works for such a
\* request (an absent mode has become VTA).
InvalidModeRejected ==
    \A p \in DOMAIN pc :
        (sc[p] # NoScanner /\ hist[p].proxy) => IsValidVulncheckMode(sc[p].mode)

\* C15 as stated: the work-version cache is populated exactly once, whether
\* or not a client is configured: once populated it never changes, and every
\* handleScan that gets past readVulncheckWorkVersions reads the populated
\* cache.
CachePopulatedExactlyOnce ==
    [][/\ storedWorkVersions.loaded => storedWorkVersions' = storedWorkVersions
       /\ \A p \in DOMAIN pc :
            sc'[p] # NoScanner => storedWorkVersions'.loaded]_vars

\* C15: the work-version cache is populated at most once, under the mutex,
\* from the analytics store: once populated it never changes; with a client
\* every handleScan that gets past readVulncheckWorkVersions reads that one
\* snapshot (a failed load leaves the cache empty and fails the request);
\* without a client the cache is never populated.
CachePopulatedAtMostOnce ==
    [][/\ storedWorkVersions.loaded => storedWorkVersions' = storedWorkVersions
       /\ (~storedWorkVersions.loaded /\ storedWorkVersions'.loaded) =>
              storedWorkVersions'.wv = table
       /\ ~bqClient => ~storedWorkVersions'.loaded
       /\ \A p \in DOMAIN pc :
            (bqClient /\ sc'[p] # NoScanner) => storedWorkVersions'.loaded]_vars

\* C15 happens: two requests are past readVulncheckWorkVersions at the same
\* time, and the store has moved on since the cache was populated.
TwoReadersOfOneSnapshot ==
    \E p, q \in DOMAIN pc :
        /\ p # q
        /\ sc[p] # NoScanner /\ sc[q] # NoScanner
        /\ storedWorkVersions.loaded
        /\ storedWorkVersions.wv # table

\* C16: the work version the dedup check consults for (module, version) is
\* the one of the most recent row appended for that pair, a row this worker
\* appended itself included; so a request for a pair whose latest row has the
\* current work version does not get as far as ScanModule.
StoredIsMostRecentRow ==
    /\ storedWorkVersions.loaded => storedWorkVersions.wv = table
    /\ \A p \in DOMAIN pc :
         (pc[p] = "ScanModule" /\ sc[p].module = "mod") => ~Equal(CurrentWV, table)

\* C17: within one scan the proxy call comes before the analysis, and the
\* row is appended to the store only once the analysis has finished or
\* failed: no row is appended while the goroutine of f is still running.
RowAppendedAfterAnalysis ==
    [][\A p \in DOMAIN pc :
         /\ (hist'[p].kind = "handleScan" /\ hist'[p].analyzer) => hist'[p].proxy
         /\ hist'[p].uploads > hist[p].uploads => mon[p].f # "running"]_vars

\* A request for the standard library is being served or has been served by
\* handleScan on the goroutine p.
ScanOfStd(p) == hist[p].kind = "handleScan" /\ sc[p].module = "std"

\* C18: no scan of module path "std" reaches the analyzer or produces a row:
\* the planner puts no task for it in the queue, in any mode, and ScanModule
\* returns for it before any proxy call, counter increment or row write.
StdNeverScanned ==
    /\ \A t \in queue : t.module # "std"
    /\ \A p \in DOMAIN pc :
         ScanOfStd(p) =>
            /\ ~hist[p].proxy /\ ~hist[p].counted /\ ~hist[p].analyzer
            /\ hist[p].uploads = 0
            /\ row[p] = NewRow
            /\ pc[p] \in {"ScanModule", "done"}

\* The planner was run for every mode over a list and a bucket that name the
\* standard library, and a request for "std" sent to the scan endpoint has
\* come back from ScanModule.
StdPlannedAndRequested ==
    /\ \E i \in DOMAIN env.modules : env.modules[i] = "std"
    /\ \E i \in DOMAIN env.binaries : env.binaries[i] = "std"
    /\ {t.mode : t \in queue} = modes
    /\ \E p \in DOMAIN pc : ScanOfStd(p) /\ pc[p] = "done" /\ hist[p].resp = "ok"

\* C20: a scan calls the append at most once; when the call fails, the
\* append's error is attached to the row the worker holds, the row is not in
\* the store, no second call is made, and handleScan returns success.
AppendAttemptedAtMostOnce ==
    \A p \in DOMAIN pc :
        /\ hist[p].appends <= 1
        /\ hist[p].uploads <= hist[p].appends
        /\ (pc[p] = "done" /\ hist[p].appends = 1 /\ hist[p].uploads = 0) =>
               /\ ErrorsIs(row[p].error, "BigQueryError")
               /\ ~row[p].uploaded
               /\ hist[p].resp = "ok"

\* C20 happens: the one append of a scan has failed and the handler has
\* returned.
AppendFailedOnce ==
    \E p \in DOMAIN pc :
        /\ pc[p] = "done" /\ hist[p].kind = "handleScan"
        /\ hist[p].appends = 1 /\ hist[p].uploads = 0
        /\ ErrorsIs(row[p].error, "BigQueryError")

\* The goroutine p comes out of the reaper in this step.
ReaperReturns(p) == pc[p] \in ReaperPcs /\ pc'[p] \notin ReaperPcs

\* C21: a failure of the cache reaper is logged and never propagated: the
\* error and the vulns the scan returns and the row built for it are what
\* they were before the reaper ran, and the failure has been logged.
ReaperFailureLoggedNotPropagated ==
    [][\A p \in DOMAIN pc :
         ReaperReturns(p) =>
            /\ ret'[p] = ret[p] /\ row'[p] = row[p]
            /\ ~hist'[p].cleanErr.nil => hist'[p].logged]_vars

\* C22: off the managed cloud runtime the reaper runs no purge command, in
\* sandbox mode as in insecure mode.
NoPurgeOffCloudRun ==
    \A p \in DOMAIN pc : ~onCloudRun => ~hist[p].purged

\* The population the planner reads for a mode: the bucket's binaries for
\* BINARY, the module list otherwise.
PopulationOf(mode) == IF mode = ModeBinary THEN call.args[3] ELSE call.args[2]

\* C23: the planner emits exactly one task for every pair (module, mode)
\* with the mode in the mode list and the module a member other than "std"
\* of that mode's population, and emits nothing else.
OneTaskPerModuleAndMode ==
    call.op = "createVulncheckQueueTasks" =>
        LET ms == call.args[1]
            tasks == call.out
        IN  /\ \A i \in DOMAIN tasks :
                  /\ tasks[i].mode \in Range(ms)
                  /\ tasks[i].module # "std"
                  /\ tasks[i].module \in Range(PopulationOf(tasks[i].mode))
            /\ \A d \in Range(ms) : \A m \in Range(PopulationOf(d)) \ {"std"} :
                  Cardinality({i \in DOMAIN tasks :
                                 tasks[i] = [module |-> m, mode |-> d]}) = 1

\* C23 happens: the planner ran for all four modes over a module list and a
\* bucket that both name std and another module, and emitted tasks in
\* every mode.
PlannedAllModes ==
    /\ call.op = "createVulncheckQueueTasks"
    /\ call.args[1] = AllModes
    /\ "std" \in Range(call.args[2]) /\ "std" \in Range(call.args[3])
    /\ Range(call.args[2]) # {"std"} /\ Range(call.args[3]) # {"std"}
    /\ {call.out[i].mode : i \in DOMAIN call.out} = modes

\* A lowercase hexadecimal digit.
IsHexDigit(r) == (r >= 48 /\ r <= 57) \/ (r >= 97 /\ r <= 102)

\* The regular expression ^[0-9a-f]{4}-[A-Za-z0-9_\-]+$.
MatchesTaskIDPattern(id) ==
    /\ Len(id) >= 6
    /\ \A i \in 1..4 : IsHexDigit(id[i])
    /\ id[5] = 45
    /\ \A i \in 6..Len(id) : IsAlnum(id[i]) \/ id[i] = 95 \/ id[i] = 45

\* The escape as the claim words it: "." is "_o", "_" is "__", alphanumerics
\* and "-" pass through, and every other code point is "_" and its code point
\* in hexadecimal.
RECURSIVE EscapeAsStated(_)
EscapeAsStated(str) ==
    IF str = <<>> THEN <<>>
    ELSE LET r == Head(str)
         IN  (IF IsAlnum(r) \/ r = 45 THEN <<r>>
              ELSE IF r = 46 THEN <<95, 111>>
              ELSE IF r = 95 THEN <<95, 95>>
              ELSE <<95>> \o Format04x(r)) \o EscapeAsStated(Tail(str))

\* The part of a task identifier after the hash prefix and its "-".
Body(id) == SubSeq(id, 6, Len(id))

\* C25 as stated: the identifier is four hexadecimal digits, "-",
\* escape(path), "_v", escape(version), where escape maps every code point
\* other than the alphanumerics, "-", "." and "_" to "_" and its hexadecimal
\* code point; it matches the pattern ^[0-9a-f]{4}-[A-Za-z0-9_\-]+$.
TaskIDAsStated ==
    call.op = "newTaskID" =>
        /\ MatchesTaskIDPattern(call.out)
        /\ Body(call.out) = EscapeAsStated(call.args[1]) \o <<95, 118>>
                               \o EscapeAsStated(call.args[2])

\* C25, amended: as stated, with "/" written "_-": in a path and a version
\* without "/" the identifier is as the claim words it, every "/" adds "_-"
\* where the claim has "_002f", the three cases of TestNewTaskID give the
\* identifiers the test expects, and every identifier matches the pattern.
TaskIDWithSlashAsDash ==
    call.op = "newTaskID" =>
        LET path == call.args[1]
            version == call.args[2]
            slashes == Cardinality({i \in DOMAIN path : path[i] = 47})
                         + Cardinality({i \in DOMAIN version : version[i] = 47})
            stated == EscapeAsStated(path) \o <<95, 118>> \o EscapeAsStated(version)
        IN  /\ MatchesTaskIDPattern(call.out)
            /\ slashes = 0 => Body(call.out) = stated
            /\ Len(Body(call.out)) = Len(stated) - (3 * slashes)
            /\ \A t \in TestNewTaskID :
                  (path = t[1] /\ version = t[2]) => call.out = t[3]

\* C25 happens: newTaskID was applied to the third case of TestNewTaskID,
\* with its "/", its "." and its code points outside ASCII.
TaskIDOfUnicodePath ==
    /\ call.op = "newTaskID"
    /\ \E t \in TestNewTaskID :
         /\ call.args = <<t[1], t[2]>>
         /\ \E i \in DOMAIN t[1] : t[1][i] = 47
         /\ \E i \in DOMAIN t[1] : t[1][i] > 127
         /\ call.out = t[3]

\* C26: newTaskID is injective: two different pairs of path and version,
\* with underscores, dots, "_v" or code points above U+FFFF in them, get
\* different task identifiers.
TaskIDInjective ==
    call.op = "newTaskID, newTaskID" => call.out[1] # call.out[2]

\* C24: the tasks the planner returns are deduplicated by task identifier:
\* no two of them have equal task identifiers.
PlannedTasksDeduplicated ==
    call.op = "createVulncheckQueueTasks" =>
        \A i, j \in DOMAIN call.out :
            i # j => taskName(call.out[i]) # taskName(call.out[j])

\* The keys of the query parameters of a URL.
QueryKeys(url) ==
    LET marks == {i \in DOMAIN url : url[i] = "?"}
        first == CHOOSE i \in marks : \A j \in marks : i <= j
    IN  IF marks = {} THEN {}
        ELSE {url[i] : i \in {j \in DOMAIN url :
                                j > first /\ (j = first + 1 \/ url[j - 1] = "&")}}

\* The URL <queueBase>/<namespace>/scan/<module>/@v/<version>
\* ?importedby=N&mode=M&insecure=B of the call's request.
StatedURL ==
    LET opts == call.args[1]
        sreq == call.args[2]
    IN  <<QueueURL, "/", opts.Namespace, "/scan/", sreq.Module, "/@v/", sreq.Version,
          "?", "importedby=", ToString(sreq.ImportedBy), "&", "mode=", sreq.Mode,
          "&", "insecure=", IF sreq.Insecure THEN "true" ELSE "false">>

\* C27 as stated: with DisableProxyFetch the only query parameter of the
\* task URL is proxyfetch=off; without it the URL is the stated one.
ProxyFetchOffIsOnlyParameter ==
    call.op = "newTaskRequest" =>
        IF call.args[1].DisableProxyFetch
        THEN QueryKeys(call.out) = {"proxyfetch="}
        ELSE call.out = StatedURL

\* C27: without DisableProxyFetch the task URL is the stated one; with it
\* the URL is the stated one followed by "?proxyfetch=off", so that the
\* parameters importedby, mode and insecure are still present.
ProxyFetchOffIsAppended ==
    call.op = "newTaskRequest" =>
        IF call.args[1].DisableProxyFetch
        THEN /\ call.out = StatedURL \o <<"?", "proxyfetch=", "off">>
             /\ QueryKeys(call.out) = {"importedby=", "mode=", "insecure="}
        ELSE call.out = StatedURL

\* C27 happens: the URL of the request of TestNewTaskRequest was built with
\* DisableProxyFetch set.
TaskURLBuiltWithoutProxyFetch ==
    /\ call.op = "newTaskRequest"
    /\ call.args[1] = [Namespace |-> "test", TaskNameSuffix |-> "suf",
                       DisableProxyFetch |-> TRUE]
    /\ call.args[2] = [Module |-> "mod", Version |-> "v1.2.3", ImportedBy |-> 0,
                       Mode |-> "test", Insecure |-> TRUE]
    /\ Len(call.out) = 19

\* C28: the scanner of a request has the insecure value of the request when
\* the insecure parameter is present and not empty, and the configured
\* default otherwise, for as long as the request is served; the default
\* itself is never changed by a request.
InsecureOverridesDefault ==
    \A p \in DOMAIN sc :
        (hist[p].kind = "handleScan" /\ sc[p] # NoScanner) =>
            sc[p].insecure = IF hist[p].param = "" THEN cfgInsecure
                             ELSE hist[p].param = "true"

\* C28 happens: on a worker whose default is the sandbox, a request with
\* insecure=true had its analysis run by an insecure scanner.
OverriddenScanAnalyzed ==
    \E p \in DOMAIN sc :
        /\ hist[p].kind = "handleScan" /\ hist[p].param = "true"
        /\ ~cfgInsecure
        /\ sc[p].insecure
        /\ hist[p].analyzer

\* The kinds a failing stage of a scan assigns: BAD_MODULE and the LOAD_*
\* kinds.
StageKinds ==
    {"BadModule", "ScanModuleLoadPackagesNoGoModError",
     "ScanModuleLoadPackagesNoGoSumError",
     "ScanModuleLoadPackagesNoRequiredModuleError",
     "ScanModuleLoadPackagesMissingGoSumEntryError",
     "ScanModuleLoadPackagesError"}

\* C29: the kind the failing stage assigned is kept by runScanModule: an
\* error that is BAD_MODULE or a LOAD_* kind when the stage returns it is
\* still of that kind in the error runScanModule returns.
StageKindKeptByRunScanModule ==
    [][\A p \in DOMAIN pc :
          (pc[p] = "deferred" /\ pc'[p] # "deferred") =>
              \A k \in StageKinds :
                  ErrorsIs(ret[p].err, k) => ErrorsIs(ret'[p].err, k)]_vars

\* The LOAD_* kind the stated priority gives a load failure.
PriorityKind(l) ==
    IF ~l[2] THEN "ScanModuleLoadPackagesNoGoModError"
    ELSE IF ~l[3] THEN "ScanModuleLoadPackagesNoGoSumError"
    ELSE IF "no required module" \in l[1].text
    THEN "ScanModuleLoadPackagesNoRequiredModuleError"
    ELSE IF "missing go.sum entry" \in l[1].text
    THEN "ScanModuleLoadPackagesMissingGoSumEntryError"
    ELSE "ScanModuleLoadPackagesError"

\* C30: a load failure of an insecure source scan is returned with exactly
\* one LOAD_* kind, the one of the priority go.mod, go.sum,
\* "no required module", "missing go.sum entry", LOAD_PACKAGES, and the
\* analyzer is not run in that scan.
LoadFailureClassifiedByPriority ==
    \A p \in DOMAIN pc :
        hist[p].load # <<>> =>
            /\ ~hist[p].analyzer
            /\ pc[p] = "deferred" =>
                   {k \in StageKinds : ErrorsIs(ret[p].err, k)}
                       = {PriorityKind(hist[p].load)}

\* C30 happens: load.Packages failed with both texts in its error and both
\* files present, and the error was returned as LOAD_NO_REQUIRED_MODULE.
LoadFailedWithBothTexts ==
    \E p \in DOMAIN pc :
        /\ pc[p] = "deferred"
        /\ hist[p].load # <<>>
        /\ hist[p].load[2] /\ hist[p].load[3]
        /\ {"no required module", "missing go.sum entry"} \subseteq hist[p].load[1].text
        /\ ErrorsIs(ret[p].err, "ScanModuleLoadPackagesNoRequiredModuleError")

\* C31: runWithMemoryMonitor returns the memory-limit error only if the
\* memory monitor has tripped; a cancellation of the request's context (the
\* client went away, the worker shuts down) alone does not make it return
\* that error.
MemoryLimitOnlyWhenTripped ==
    [][\A p \in DOMAIN pc :
         (MonitorReturns(p) /\ ErrorsIs(ret'[p].err, "ScanModuleMemoryLimitExceeded"))
             => mon[p].tripped]_vars

\* C32: the goroutine of f does not outlive a cancelled runWithMemoryMonitor:
\* it is never left blocked in its send on srchan with nobody to receive,
\* and it is not running any more when the scan's activeScans.Add(-1)
\* happens.
AnalyzerGoroutineEnds ==
    [][\A p \in DOMAIN pc :
         /\ mon'[p].f # "blocked"
         /\ (pc[p] = "deferred" /\ pc'[p] # "deferred") => mon[p].f # "running"]_vars

\* The scan of the goroutine q has its files in the directory: the download
\* has returned, and 'go mod download' or the analyzer is still to use them.
UsesImageDir(q) == pc[q] \in {"goModDownload", "sboxRun"}

\* C33: the source directory of a sandbox scan is not removed while another
\* scan of the same module and version is still downloading into it or
\* analyzing it.
ImageDirKeptWhileInUse ==
    [][(imageDir /\ ~imageDir') => \A q \in DOMAIN pc : ~UsesImageDir(q)]_vars

\* The arguments pass the validation as the command's description has it:
\* there is a binary, it exists, it is a file built for linux/amd64, and no
\* argument contains whitespace.
ArgsValid(a) ==
    /\ a.parse /\ a.narg >= 1
    /\ a.stat = "file"
    /\ a.arch = "linux/amd64"
    /\ ~(a.narg > 1 /\ a.space)

\* The user was asked whether to overwrite the binary and did not confirm.
Declined(a, w) ==
    /\ ~a.dryRun /\ w.token /\ w.attrs = "differs" /\ w.md5
    /\ w.response \notin {"y", "Y"}

\* C34: the start command validates, then uploads, then sends the enqueue
\* request, in that order, and stops at the first step that fails: nothing
\* is uploaded or requested with invalid arguments, and no request is sent
\* when the upload failed or the user declined to overwrite.
StartStepsInOrder ==
    start.pc # "idle" =>
        /\ start.events \in {<<>>, <<"upload">>, <<"enqueue">>, <<"upload", "enqueue">>}
        /\ ~ArgsValid(start.args) =>
               start.events = <<>> /\ start.pc = "done" /\ start.err # ""
        /\ (start.up # <<>> /\ (start.up.err # "" \/ start.up.canceled)) =>
               /\ start.pc = "done"
               /\ "enqueue" \notin Range(start.events)
        /\ (ArgsValid(start.args) /\ Declined(start.args, start.world)) =>
               start.events = <<>>
        /\ "enqueue" \in Range(start.events) =>
               start.up # <<>> /\ start.up.err = "" /\ ~start.up.canceled

\* C34 happens: the binary was on GCS with another checksum, the user
\* confirmed, and the upload and then the enqueue request were made.
StartOverwroteAndEnqueued ==
    /\ start.pc = "done"
    /\ start.world.attrs = "differs" /\ start.world.response = "y"
    /\ start.events = <<"upload", "enqueue">>
    /\ start.err = ""

====
